---- MODULE Spec2Model ----
(***************************************************************************)
(* Model of src/index.js: the bridge that wraps a native module found on   *)
(* a global object (Android: an injected object, iOS: a webkit message     *)
(* handler) behind invoke(method, ...params) -> Promise.                    *)
(*                                                                         *)
(* JavaScript is run-to-completion, so every handler (wrapModule, invoke,  *)
(* a native call of a global callback) is one atomic action.               *)
(***************************************************************************)
EXTENDS Integers, Sequences, FiniteSets, TLC

VARIABLES
  genv,      \* the object passed to wrapModule as globalObject: "window" or another object
  mod,       \* mod[m]      : the value of genv[m]
  webkit,    \* shape of genv.webkit: "absent", "noHandlers", "handlers"
  handlers,  \* handlers[m] : the value of genv.webkit.messageHandlers[m] (when webkit = "handlers")
  slot,      \* slot[e][s]  : the promise whose handler sits at e[s], 0 when e[s] is undefined
  promise,   \* promise[c]  : state and value of the promise made by the c-th promisifyCallback
  nextId,    \* number of promises made so far, plus one
  last       \* what the last handler run was given, what it returned or threw, what it called

vars == <<genv, mod, webkit, handlers, slot, promise, nextId, last>>

----------------------------------------------------------------------------
(* Bounds *)

\* promises (promisifyCallback runs) in one behaviour
MaxCalls == 1

\* promises in one behaviour of SpecPair, where calls are outstanding together
MaxOutstanding == 2

\* wrappers around one native module (wrapModule runs on one module name)
MaxWraps == 1

\* parameters in one invoke of SpecArgs
MaxArgs == 2

\* wrappers around one native module in SpecRewrap
MaxRewraps == 2

\* promises in one behaviour of SpecRewrap
MaxRewrapCalls == 2

----------------------------------------------------------------------------
(* JavaScript values *)

Undefined == [t |-> "undefined"]
Null      == [t |-> "null"]
Num(n)    == [t |-> "number", n |-> n]
Str(s)    == [t |-> "string", s |-> s]
\* an object payload; isError is the JavaScript value of its isError field
Obj(isError, message) == [t |-> "object", isError |-> isError, message |-> message]
\* exceptions
TypeError       == [t |-> "TypeError"]
NativeException == [t |-> "NativeException"]

\* ToBoolean, the !! of line 41 and line 119
Truthy(v) ==
  CASE v.t = "undefined" -> FALSE
    [] v.t = "null"      -> FALSE
    [] v.t = "boolean"   -> v.b
    [] v.t = "number"    -> v.n # 0
    [] v.t = "string"    -> v.s # ""
    [] OTHER             -> TRUE

Bool(b) == [t |-> "boolean", b |-> b]

\* arg["isError"] of line 41: throws on null and undefined, undefined on a
\* primitive, the field on an object
CanReadProperty(arg) == arg.t \notin {"undefined", "null"}
ReadIsError(arg) == IF arg.t = "object" THEN arg.isError ELSE Undefined

\* the payloads native code passes to a callback slot; none is a thenable
Payloads ==
  { Num(42),
    Obj(Bool(TRUE), "boom"),
    Null }

----------------------------------------------------------------------------
(* Names *)

\* the module names wrapModule is called with
ModuleNames == {"Foo", "Foo_x"}

\* the method names invoke is called with
MethodNames == {"bar", "x_bar", "toString", "version"}

\* the objects used as globalObject; "window" is the ambient global of line 121
Envs == {"window", "frame"}

\* a slot name that leaves the method out: one slot for each module
SlotNamePerModule(moduleName, funcName) == moduleName \o "_Callback"

\* line 34
SlotName(moduleName, funcName) == moduleName \o "_" \o funcName \o "Callback"

SlotNames ==
  { SlotName(m, f) : m \in ModuleNames, f \in MethodNames \cup {"postMessage", "invoke"} }

----------------------------------------------------------------------------
(* Objects: own properties and a prototype *)

\* the kinds of an own property: a function or a data value, enumerable or not
Fn         == "fn"
Data       == "data"
HiddenFn   == "hiddenFn"
Absent     == "absent"

NoProto == "null"

Keys == MethodNames \cup {"postMessage", "invoke"}

\* the order in which Object.keys and Object.getOwnPropertyNames list keys
KeyOrder == <<"bar", "x_bar", "version", "invoke", "postMessage", "toString">>

OwnProps(fns, data, hidden) ==
  [k \in Keys |-> IF k \in fns THEN Fn
                  ELSE IF k \in data THEN Data
                  ELSE IF k \in hidden THEN HiddenFn
                  ELSE Absent]

\* The objects native code and the language provide.
\*   ObjectPrototype : Object.prototype, with toString standing for its built-in methods
\*   plain    : { bar() {}, x_bar() {}, version: "1" }
\*   inst     : new (class { bar() {} })()
\*   derived  : new (class extends (class { bar() {} }) { x_bar() {} })()
\*   bare     : Object.assign(Object.create(null), { bar() {} })
\*   channel  : { postMessage(payload) {} }, a webkit message handler
\*   wrapper  : { invoke: ... }, what wrapAndroidModule and wrapIOSModule return
\* The constructor key of a prototype is left out: no invoke names it.
Heap ==
  [ ObjectPrototype |-> [own |-> OwnProps({}, {}, {"toString"}), proto |-> NoProto],
    plain        |-> [own |-> OwnProps({"bar", "x_bar"}, {"version"}, {}), proto |-> "ObjectPrototype"],
    ClassProto   |-> [own |-> OwnProps({}, {}, {"bar"}), proto |-> "ObjectPrototype"],
    inst         |-> [own |-> OwnProps({}, {}, {}), proto |-> "ClassProto"],
    DerivedProto |-> [own |-> OwnProps({}, {}, {"x_bar"}), proto |-> "ClassProto"],
    derived      |-> [own |-> OwnProps({}, {}, {}), proto |-> "DerivedProto"],
    bare         |-> [own |-> OwnProps({"bar"}, {}, {}), proto |-> NoProto],
    channel      |-> [own |-> OwnProps({"postMessage"}, {}, {}), proto |-> "ObjectPrototype"],
    wrapper      |-> [own |-> OwnProps({"invoke"}, {}, {}), proto |-> "ObjectPrototype"] ]

\* the values of genv[m] and genv.webkit.messageHandlers[m]
Raw(o) == [t |-> "raw", obj |-> o]
IsWrapper(v) == v.t = "wrapper"
\* the heap object that gives a value its properties
ShapeOf(v) == IF IsWrapper(v) THEN "wrapper" ELSE v.obj

RECURSIVE Lookup(_, _)
\* o[key]: the kind of the property found along the prototype chain of heap object o
Lookup(o, key) ==
  IF o = NoProto \/ key \notin Keys THEN Absent
  ELSE IF Heap[o].own[key] # Absent THEN Heap[o].own[key]
  ELSE Lookup(Heap[o].proto, key)

\* typeof o[key] === "function"
IsFunction(o, key) == Lookup(o, key) \in {Fn, HiddenFn}

\* Object.keys(o): own enumerable keys
ObjectKeys(o) == SelectSeq(KeyOrder, LAMBDA k : Heap[o].own[k] \in {Fn, Data})

\* Object.getOwnPropertyNames(o): own keys, enumerable or not; throws on null
GetOwnPropertyNames(o) == SelectSeq(KeyOrder, LAMBDA k : Heap[o].own[k] # Absent)

\* a getModuleKeys that leaves the prototype out
getModuleKeysOwnOnly(module) == ObjectKeys(module)

\* lines 15-20; Throws says whether getModuleKeys raises a TypeError
getModuleKeysThrows(module) == Heap[module].proto = NoProto
getModuleKeys(module) ==
  ObjectKeys(module) \o GetOwnPropertyNames(Heap[module].proto)

Range(seq) == { seq[i] : i \in 1..Len(seq) }

\* lines 56-65: the keys of wrappedModule
WrappedKeys(module) ==
  Range(SelectSeq(getModuleKeys(module), LAMBDA key : IsFunction(module, key)))

----------------------------------------------------------------------------
(* Parameters and payloads *)

\* lines 109-111
createModuleMethodParameter(paramName, paramValue) ==
  [t |-> "param", paramName |-> paramName, paramValue |-> paramValue]

\* the parameter lists invoke is called with
ArgLists ==
  { <<createModuleMethodParameter("x", Num(5))>> }

\* destructuring ({ paramName, paramValue }) throws on undefined and null
CanDestructure(args) == \A i \in 1..Len(args) : CanReadProperty(args[i])
ParamNameOf(a)  == IF a.t = "param" THEN a.paramName ELSE "undefined"
ParamValueOf(a) == IF a.t = "param" THEN a.paramValue ELSE Undefined

\* a map that hands the values over last one first
ParamsReversed(args) == [i \in 1..Len(args) |-> ParamValueOf(args[Len(args) + 1 - i])]

\* line 73: args.map(({ paramValue }) => paramValue)
ParamValues(args) == [i \in 1..Len(args) |-> ParamValueOf(args[i])]

\* a spread in which the fields already there win over the ones of item
SpreadKeepFirst(acc, item) ==
  [k \in DOMAIN acc \cup DOMAIN item |-> IF k \in DOMAIN acc THEN acc[k] ELSE item[k]]

\* { ...acc, ...item } on objects kept as functions from field name to value
Spread(acc, item) ==
  [k \in DOMAIN acc \cup DOMAIN item |-> IF k \in DOMAIN item THEN item[k] ELSE acc[k]]

EmptyObject == [k \in {} |-> Undefined]
Field(name, value) == [k \in {name} |-> value]

RECURSIVE ReduceParams(_, _)
\* lines 93-95: the params folded into one object, from the left
ReduceParams(acc, args) ==
  IF args = <<>> THEN acc
  ELSE ReduceParams(Spread(acc, Field(ParamNameOf(Head(args)), ParamValueOf(Head(args)))),
                    Tail(args))

\* lines 91-96: the object given to postMessage
PostMessagePayload(method, args) ==
  Spread(Field("method", Str(method)), ReduceParams(EmptyObject, args))

\* a value used as a property key
KeyOf(v) == IF v.t = "string" THEN v.s ELSE "?"

----------------------------------------------------------------------------
(* Promises, callback slots and native code *)

\* The effects of a handler run are computed on a record st:
\*   slot, promise, nextId : as the variables
\*   native : the calls into native code made so far in this run
\*   fired  : the slot handlers run so far in this run
\* and a run ends as [st, kind, call, val] with kind one of
\*   "promise" (call is the promise returned), "throw" (val is the exception),
\*   "value" (val is returned and is no promise), "return" (nothing is returned)
Result(st, kind, call, val) == [st |-> st, kind |-> kind, call |-> call, val |-> val]
Return(st)     == Result(st, "return", 0, Undefined)
Throw(st, exc) == Result(st, "throw", 0, exc)

\* a promise, with what promisifyCallback was given when it made it and the
\* slot name its handler was installed at
NoPromise ==
  [state |-> "none", value |-> Undefined, env |-> "", module |-> "", func |-> "", name |-> ""]
Pending(globalObject, moduleName, funcName, name) ==
  [state |-> "pending", value |-> Undefined, env |-> globalObject,
   module |-> moduleName, func |-> funcName, name |-> name]

\* resolve(value) and reject(value) of a promise: only the first one counts
Settle(st, c, state, value) ==
  IF st.promise[c].state = "pending"
  THEN [st EXCEPT !.promise[c].state = state, !.promise[c].value = value]
  ELSE st

\* a handler that does not look at isError and always resolves
HandlerAlwaysResolves(st, c, arg) ==
  IF ~CanReadProperty(arg) THEN Throw(st, TypeError)
  ELSE Return(Settle(st, c, "fulfilled", arg))

\* lines 38-42: the handler installed for promise c, called with arg
Handler(st, c, arg) ==
  IF ~CanReadProperty(arg) THEN Throw(st, TypeError)
  ELSE IF Truthy(ReadIsError(arg)) THEN Return(Settle(st, c, "rejected", arg))
  ELSE Return(Settle(st, c, "fulfilled", arg))

\* native code running e[s](arg)
CallSlot(st, e, s, arg) ==
  IF s \notin SlotNames THEN Throw(st, TypeError)
  ELSE IF st.slot[e][s] = 0 THEN Throw(st, TypeError)
  ELSE LET c == st.slot[e][s]
           f == [call |-> c, env |-> e, name |-> s, arg |-> arg,
                 wasPending |-> st.promise[c].state = "pending",
                 others |-> { a \in DOMAIN st.promise \ {c} :
                                /\ st.promise[a].state = "pending"
                                /\ st.promise[a].env = e
                                /\ st.promise[a].name = s }]
       IN  Handler([st EXCEPT !.fired = Append(@, f)], c, arg)

\* What a native method does before it returns: nothing (it completes later
\* or never), throw, or call the callback slot of its module and method on
\* one of the global objects (and then return, or throw: "callbackThenThrow").
Behaviours ==
  { [do |-> "nothing"], [do |-> "throw"] }
  \cup { [do |-> "callback", env |-> e, arg |-> p] : e \in Envs, p \in Payloads }

\* native code knows the global object it was injected into and the window
BehavioursOn(g) == { b \in Behaviours : b.do = "callback" => b.env \in {g, "window"} }

\* the heap object along the prototype chain of o that holds key
RECURSIVE DefinedOn(_, _)
DefinedOn(o, key) ==
  IF o = NoProto \/ key \notin Keys THEN NoProto
  ELSE IF Heap[o].own[key] # Absent THEN o
  ELSE DefinedOn(Heap[o].proto, key)

\* f.module[f.key](...f.args) where it is a method of a native object
NativeCall(st, f, beh) ==
  LET s   == SlotName(f.name, f.slotMethod)
      c   == st.nextId - 1   \* the promise whose executor is running
      rec == [obj |-> ShapeOf(f.module), key |-> f.key, args |-> f.args, slotName |-> s,
              call |-> c, ownSlot |-> st.slot[st.promise[c].env][st.promise[c].name],
              did |-> beh]
      st1 == [st EXCEPT !.native = Append(@, rec)]
  IN  CASE beh.do = "nothing"  -> Return(st1)
        [] beh.do = "throw"    -> Throw(st1, NativeException)
        [] beh.do = "callback" -> CallSlot(st1, beh.env, s, beh.arg)
        [] beh.do = "callbackThenThrow" ->
             LET r == CallSlot(st1, beh.env, s, beh.arg)
             IN  IF r.kind = "throw" THEN r ELSE Throw(r.st, NativeException)

RECURSIVE InvokeWrapper(_, _, _, _, _)

\* funcToWrap(): lines 61 and 91 bind it to a module, a key and arguments
RunTrigger(st, f, beh) ==
  IF IsWrapper(f.module)
  THEN IF f.key = "invoke"
       THEN LET method == IF f.args = <<>> THEN "?" ELSE KeyOf(Head(f.args))
                rest   == IF f.args = <<>> THEN <<>> ELSE Tail(f.args)
                r      == InvokeWrapper(st, f.module, method, rest, beh)
            IN  IF r.kind = "throw" THEN r ELSE Return(r.st)
       ELSE Return(st)
  ELSE IF DefinedOn(ShapeOf(f.module), f.key) = "ObjectPrototype" THEN Return(st)
  ELSE NativeCall(st, f, beh)

\* a promisifyCallback that calls funcToWrap before it installs the handler
promisifyCallbackTriggerFirst(st, globalObject, moduleName, funcName, funcToWrap, beh) ==
  LET globalCallbackName == SlotName(moduleName, funcName)
      c   == st.nextId
      st0 == [st EXCEPT !.promise[c] =
                          Pending(globalObject, moduleName, funcName, globalCallbackName),
                        !.nextId = c + 1]
      r   == RunTrigger(st0, funcToWrap, beh)
      st1 == IF r.kind = "throw" THEN Settle(r.st, c, "rejected", r.val) ELSE r.st
  IN  Result([st1 EXCEPT !.slot[globalObject][globalCallbackName] = c],
             "promise", c, Undefined)

\* a promisifyCallback that resolves the promise itself once funcToWrap returns
promisifyCallbackResolvesAtOnce(st, globalObject, moduleName, funcName, funcToWrap, beh) ==
  LET globalCallbackName == SlotName(moduleName, funcName)
      c   == st.nextId
      st0 == [st EXCEPT !.promise[c] =
                          Pending(globalObject, moduleName, funcName, globalCallbackName),
                        !.nextId = c + 1]
      st1 == [st0 EXCEPT !.slot[globalObject][globalCallbackName] = c]
      r   == RunTrigger(st1, funcToWrap, beh)
  IN  Result(IF r.kind = "throw" THEN Settle(r.st, c, "rejected", r.val)
             ELSE Settle(r.st, c, "fulfilled", Undefined),
             "promise", c, Undefined)

\* a promisifyCallback that calls funcToWrap outside the promise
promisifyCallbackThrows(st, globalObject, moduleName, funcName, funcToWrap, beh) ==
  LET globalCallbackName == SlotName(moduleName, funcName)
      c   == st.nextId
      st0 == [st EXCEPT !.promise[c] =
                          Pending(globalObject, moduleName, funcName, globalCallbackName),
                        !.nextId = c + 1]
      st1 == [st0 EXCEPT !.slot[globalObject][globalCallbackName] = c]
      r   == RunTrigger(st1, funcToWrap, beh)
  IN  IF r.kind = "throw" THEN r ELSE Result(r.st, "promise", c, Undefined)

\* lines 33-46
promisifyCallback(st, globalObject, moduleName, funcName, funcToWrap, beh) ==
  LET globalCallbackName == SlotName(moduleName, funcName)
      c   == st.nextId
      st0 == [st EXCEPT !.promise[c] =
                          Pending(globalObject, moduleName, funcName, globalCallbackName),
                        !.nextId = c + 1]
      st1 == [st0 EXCEPT !.slot[globalObject][globalCallbackName] = c]
      r   == RunTrigger(st1, funcToWrap, beh)
  IN  Result(IF r.kind = "throw" THEN Settle(r.st, c, "rejected", r.val) ELSE r.st,
             "promise", c, Undefined)

\* what wrapAndroidModule and wrapIOSModule return
Wrapper(kind, globalObject, moduleName, module, keys) ==
  [t |-> "wrapper", kind |-> kind, env |-> globalObject, name |-> moduleName,
   module |-> module, keys |-> keys]

\* lines 55-75; keys are the keys of wrappedModule
wrapAndroidModule(globalObject, moduleName, module) ==
  Wrapper("android", globalObject, moduleName, module, WrappedKeys(ShapeOf(module)))

\* lines 84-101
wrapIOSModule(globalObject, moduleName, module) ==
  Wrapper("ios", globalObject, moduleName, module, {})

\* lines 72-73: invoke of a wrapper made by wrapAndroidModule
InvokeAndroid(st, w, method, args, beh) ==
  IF ~CanDestructure(args) THEN Throw(st, TypeError)
  ELSE IF method \in w.keys
  THEN promisifyCallback(st, w.env, w.name, method,
         [module |-> w.module, key |-> method, args |-> ParamValues(args),
          name |-> w.name, slotMethod |-> method], beh)
  ELSE IF IsFunction("ObjectPrototype", method)
  THEN Result(st, "value", 0, Str("[object Object]"))
  ELSE Throw(st, TypeError)

\* lines 90-99: invoke of a wrapper made by wrapIOSModule
InvokeIOS(st, w, method, args, beh) ==
  IF ~IsFunction(ShapeOf(w.module), "postMessage") THEN Throw(st, TypeError)
  ELSE IF ~CanDestructure(args) THEN Throw(st, TypeError)
  ELSE LET payload == PostMessagePayload(method, args)
       IN  promisifyCallback(st, w.env, w.name, method,
             [module |-> w.module, key |-> "postMessage", args |-> <<payload>>,
              name |-> w.name, slotMethod |-> KeyOf(payload["method"])], beh)

InvokeWrapper(st, w, method, args, beh) ==
  IF w.kind = "android" THEN InvokeAndroid(st, w, method, args, beh)
  ELSE InvokeIOS(st, w, method, args, beh)

RECURSIVE Depth(_)
\* how many wrappers are around the native module
Depth(v) == IF IsWrapper(v) THEN 1 + Depth(v.module) ELSE 0

----------------------------------------------------------------------------
(* The state machine *)

\* the native objects that may sit at genv[m] before wrapModule runs
DirectShapes == {"plain", "inst", "derived", "bare"}

Modules(foo, foox) == [m \in ModuleNames |-> IF m = "Foo" THEN foo ELSE foox]

\* what native code has put at genv[m] before the page runs
DirectConfigs ==
  { Modules(Raw("plain"), Raw("derived")),
    Modules(Raw("inst"), Undefined),
    Modules(Undefined, Undefined) }

\* what native code has put at genv.webkit before the page runs
ChannelConfigs ==
  { [webkit |-> "absent",   handlers |-> Modules(Undefined, Undefined)],
    [webkit |-> "handlers", handlers |-> Modules(Raw("channel"), Raw("channel"))] }

Machine == [slot |-> slot, promise |-> promise, nextId |-> nextId,
            native |-> <<>>, fired |-> <<>>]

\* no promise made, no slot installed
NoCalls(maxCalls) ==
  /\ slot = [e \in Envs |-> [s \in SlotNames |-> 0]]
  /\ promise = [c \in 1..maxCalls |-> NoPromise]
  /\ nextId = 1
  /\ last = [op |-> "init"]

Init ==
  /\ genv \in Envs
  /\ mod \in DirectConfigs
  /\ \E c \in ChannelConfigs : webkit = c.webkit /\ handlers = c.handlers
  /\ NoCalls(MaxCalls)

\* line 119: !!globalObject[moduleName]
HasDirectModule(moduleName) == Truthy(mod[moduleName])

\* a check of the message channel that does not look at the handler itself
HasChannelModuleUnchecked(moduleName) == webkit = "handlers"

\* lines 124-126: webkit, webkit.messageHandlers and the handler are all truthy
HasChannelModule(moduleName) ==
  webkit = "handlers" /\ Truthy(handlers[moduleName])

\* lines 118-132: wrapModule(genv, moduleName)
wrapModule(moduleName) ==
  LET pre == [mod |-> mod[moduleName], webkit |-> webkit, handler |-> handlers[moduleName]]
  IN
  /\ IF HasDirectModule(moduleName)
     THEN LET androidModule == mod[moduleName]
          IN  IF getModuleKeysThrows(ShapeOf(androidModule))
              THEN /\ last' = [op |-> "wrapModule", module |-> moduleName, pre |-> pre,
                               branch |-> "android", kind |-> "throw", val |-> TypeError]
                   /\ UNCHANGED <<mod, handlers>>
              ELSE /\ mod' = [mod EXCEPT ![moduleName] =
                                 wrapAndroidModule("window", moduleName, androidModule)]
                   /\ last' = [op |-> "wrapModule", module |-> moduleName, pre |-> pre,
                               branch |-> "android", kind |-> "return", val |-> Undefined]
                   /\ UNCHANGED handlers
     ELSE IF HasChannelModule(moduleName)
     THEN LET iOSModule == handlers[moduleName]
          IN  /\ handlers' = [handlers EXCEPT ![moduleName] =
                                 wrapIOSModule(genv, moduleName, iOSModule)]
              /\ last' = [op |-> "wrapModule", module |-> moduleName, pre |-> pre,
                          branch |-> "ios", kind |-> "return", val |-> Undefined]
              /\ UNCHANGED mod
     ELSE /\ last' = [op |-> "wrapModule", module |-> moduleName, pre |-> pre,
                      branch |-> "none", kind |-> "return", val |-> Undefined]
          /\ UNCHANGED <<mod, handlers>>
  /\ UNCHANGED <<genv, webkit, slot, promise, nextId>>

\* w.invoke(method, ...args), with beh what native code does if it is reached
Invoke(via, moduleName, w, method, args, beh) ==
  /\ IsWrapper(w)
  /\ nextId + Depth(w) - 1 \in DOMAIN promise
  /\ LET r == InvokeWrapper(Machine, w, method, args, beh)
     IN  /\ slot' = r.st.slot
         /\ promise' = r.st.promise
         /\ nextId' = r.st.nextId
         /\ last' = [op |-> "invoke", via |-> via, module |-> moduleName, method |-> method,
                     args |-> args,
                     kind |-> r.kind, call |-> r.call, val |-> r.val,
                     native |-> r.st.native, fired |-> r.st.fired]
  /\ UNCHANGED <<genv, mod, webkit, handlers>>

\* genv[moduleName].invoke(method, ...args)
InvokeDirect(moduleName, method, args, beh) ==
  Invoke("direct", moduleName, mod[moduleName], method, args, beh)

\* genv.webkit.messageHandlers[moduleName].invoke(method, ...args)
InvokeChannel(moduleName, method, args, beh) ==
  /\ webkit = "handlers"
  /\ Invoke("channel", moduleName, handlers[moduleName], method, args, beh)

\* native code completes a call later: it runs e[s](arg) from the event loop
NativeCallback(e, s, arg) ==
  /\ slot[e][s] # 0
  /\ LET r == CallSlot(Machine, e, s, arg)
     IN  /\ promise' = r.st.promise
         /\ last' = [op |-> "callback", env |-> e, name |-> s, arg |-> arg,
                     kind |-> r.kind, val |-> r.val, fired |-> r.st.fired]
  /\ UNCHANGED <<genv, mod, webkit, handlers, slot, nextId>>

\* wrapModule on a module name wrapped fewer than maxWraps times
Installs(maxWraps) ==
  \E m \in ModuleNames :
    /\ Depth(mod[m]) < maxWraps
    /\ Depth(handlers[m]) < maxWraps
    /\ wrapModule(m)

Calls(methods, argLists, behaviours) ==
  \/ \E m \in ModuleNames, f \in methods, a \in argLists, b \in behaviours :
       InvokeDirect(m, f, a, b)
  \/ \E m \in ModuleNames, f \in methods, a \in argLists, b \in behaviours :
       InvokeChannel(m, f, a, b)

Completions(payloads) ==
  \E e \in Envs, s \in SlotNames, p \in payloads : NativeCallback(e, s, p)

Next ==
  \/ Installs(MaxWraps)
  \/ Calls(MethodNames, ArgLists, BehavioursOn(genv))
  \/ Completions(Payloads)

Spec == Init /\ [][Next]_vars

----------------------------------------------------------------------------
(* wrapModule alone, over every shape of genv *)

DirectValues  == {Undefined, Null} \cup { Raw(o) : o \in DirectShapes }
ChannelValues == {Undefined, Null, Raw("channel")}

InitInstall ==
  /\ genv \in Envs
  /\ mod \in [ModuleNames -> DirectValues]
  /\ webkit \in {"absent", "noHandlers", "handlers"}
  /\ handlers \in [ModuleNames -> ChannelValues]
  /\ webkit # "handlers" => handlers = Modules(Undefined, Undefined)
  /\ NoCalls(MaxCalls)

NextInstall == Installs(MaxWraps)

SpecInstall == InitInstall /\ [][NextInstall]_vars

----------------------------------------------------------------------------
(* Calls outstanding together *)

PairMethods == {"bar", "x_bar"}

\* native code completes later, or at once with a success value
PairBehaviours(g) ==
  { b \in BehavioursOn(g) : b.do = "nothing" \/ (b.do = "callback" /\ b.arg = Num(42)) }

\* the global object is the window here: which object holds the slots is
\* the matter of Spec
InitPair ==
  /\ genv = "window"
  /\ \/ mod = Modules(Raw("plain"), Raw("plain")) /\ webkit = "absent"
        /\ handlers = Modules(Undefined, Undefined)
     \/ mod = Modules(Undefined, Undefined) /\ webkit = "handlers"
        /\ handlers = Modules(Raw("channel"), Raw("channel"))
  /\ NoCalls(MaxOutstanding)

NextPair ==
  \/ Installs(MaxWraps)
  \/ Calls(PairMethods, ArgLists, PairBehaviours(genv))
  \/ Completions(Payloads)

SpecPair == InitPair /\ [][NextPair]_vars

----------------------------------------------------------------------------
(* Payloads of every shape *)

\* numbers, strings, booleans, objects with and without isError, null, undefined
WidePayloads ==
  Payloads \cup
  { Undefined, Num(0), Str("ok"), Str(""), Bool(TRUE), Bool(FALSE),
    Obj(Undefined, "done"), Obj(Bool(FALSE), "done"), Obj(Str("yes"), "boom") }

\* native code completes later, or at once with any payload
PayloadBehaviours ==
  { [do |-> "nothing"] }
  \cup { [do |-> "callback", env |-> "window", arg |-> p] : p \in WidePayloads }

InitPayload ==
  /\ genv = "window"
  /\ \/ mod = Modules(Raw("plain"), Undefined) /\ webkit = "absent"
        /\ handlers = Modules(Undefined, Undefined)
     \/ mod = Modules(Undefined, Undefined) /\ webkit = "handlers"
        /\ handlers = Modules(Raw("channel"), Undefined)
  /\ NoCalls(MaxCalls)

NextPayload ==
  \/ Installs(MaxWraps)
  \/ Calls({"bar"}, ArgLists, PayloadBehaviours)
  \/ Completions(WidePayloads)

SpecPayload == InitPayload /\ [][NextPayload]_vars

----------------------------------------------------------------------------
(* Parameter lists of every shape *)

\* parameters with names that repeat, one of them named like the method field
ArgNames  == {"x", "method"}
ArgValues == {Num(1), Str("x_bar")}
Params == { createModuleMethodParameter(n, v) : n \in ArgNames, v \in ArgValues }

\* ...args: the lists of at most MaxArgs parameters
WideArgLists == UNION { [1..k -> Params] : k \in 0..MaxArgs }

\* native code completes later, or at once with a success value
ArgBehaviours ==
  { [do |-> "nothing"], [do |-> "callback", env |-> "window", arg |-> Num(42)] }

InitArgs ==
  /\ genv = "window"
  /\ \/ mod = Modules(Raw("plain"), Undefined) /\ webkit = "absent"
        /\ handlers = Modules(Undefined, Undefined)
     \/ mod = Modules(Undefined, Undefined) /\ webkit = "handlers"
        /\ handlers = Modules(Raw("channel"), Undefined)
  /\ NoCalls(MaxCalls)

NextArgs ==
  \/ Installs(MaxWraps)
  \/ Calls(PairMethods, WideArgLists, ArgBehaviours)
  \/ Completions({Num(42)})

SpecArgs == InitArgs /\ [][NextArgs]_vars

----------------------------------------------------------------------------
(* wrapModule run again on a wrapped module *)

RewrapMethods == {"invoke", "bar", "toString"}

\* parameters whose values are method names
RewrapArgLists ==
  { <<>>,
    <<createModuleMethodParameter("m", Str("bar"))>>,
    <<createModuleMethodParameter("m", Str("invoke")),
      createModuleMethodParameter("m", Str("bar"))>> }

InitRewrap ==
  /\ genv = "window"
  /\ mod = Modules(Raw("plain"), Undefined)
  /\ webkit = "handlers"
  /\ handlers = Modules(Undefined, Raw("channel"))
  /\ NoCalls(MaxRewrapCalls)

NextRewrap ==
  \/ Installs(MaxRewraps)
  \/ Calls(RewrapMethods, RewrapArgLists, ArgBehaviours)
  \/ Completions({Num(42)})

SpecRewrap == InitRewrap /\ [][NextRewrap]_vars

----------------------------------------------------------------------------
(* Native calls that throw *)

\* native code returns, throws, or calls the slot and then returns or throws
ThrowBehaviours ==
  { [do |-> "nothing"], [do |-> "throw"] }
  \cup { [do |-> d, env |-> "window", arg |-> p] :
           d \in {"callback", "callbackThenThrow"}, p \in {Num(42), Null} }

InitThrow ==
  /\ genv = "window"
  /\ \/ mod = Modules(Raw("plain"), Raw("plain")) /\ webkit = "absent"
        /\ handlers = Modules(Undefined, Undefined)
     \/ mod = Modules(Undefined, Undefined) /\ webkit = "handlers"
        /\ handlers = Modules(Raw("channel"), Raw("channel"))
  /\ NoCalls(MaxCalls)

NextThrow ==
  \/ Installs(MaxWraps)
  \/ Calls(PairMethods, ArgLists, ThrowBehaviours)
  \/ Completions(Payloads)

SpecThrow == InitThrow /\ [][NextThrow]_vars

----------------------------------------------------------------------------
(* Properties *)

\* the slot handlers the last handler run fired, and the native calls it made
Firings == IF last.op \in {"invoke", "callback"} THEN Range(last.fired) ELSE {}
NativeCalls == IF last.op = "invoke" THEN Range(last.native) ELSE {}

\* arg.isError is truthy; null and undefined have no isError
HasTruthyIsError(arg) == CanReadProperty(arg) /\ Truthy(ReadIsError(arg))

Fulfilled(c, v) == promise[c].state = "fulfilled" /\ promise[c].value = v
Rejected(c, v)  == promise[c].state = "rejected" /\ promise[c].value = v
Settled(c)      == promise[c].state \in {"fulfilled", "rejected"}

\* C1: whenever native code completes a pending call by calling its slot
\* with a payload whose isError is not truthy, the promise of that call is
\* fulfilled with exactly that payload.
C1_SuccessResolves ==
  \A f \in Firings :
    (f.wasPending /\ ~HasTruthyIsError(f.arg)) => Fulfilled(f.call, f.arg)

\* C1, for the payloads whose isError can be read (all but null and undefined)
C1_ReadableSuccessResolves ==
  \A f \in Firings :
    (f.wasPending /\ CanReadProperty(f.arg) /\ ~HasTruthyIsError(f.arg))
      => Fulfilled(f.call, f.arg)

C1_ReadableSuccessWitness ==
  \E f \in Firings :
    f.wasPending /\ CanReadProperty(f.arg) /\ ~HasTruthyIsError(f.arg)

\* C2: whenever native code completes a pending call by calling its slot
\* with a payload whose isError is truthy, the promise of that call is
\* rejected with exactly that payload; and a rejected promise stays rejected
\* with the same reason (it never resolves).
C2_ErrorRejectsNow ==
  \A f \in Firings :
    (f.wasPending /\ HasTruthyIsError(f.arg)) => Rejected(f.call, f.arg)

C2_RejectedStays ==
  \A c \in DOMAIN promise :
    promise[c].state = "rejected" => promise'[c] = promise[c]

C2_ErrorRejects == []C2_ErrorRejectsNow /\ [][C2_RejectedStays]_vars

C2_Witness ==
  \E f \in Firings :
    f.wasPending /\ HasTruthyIsError(f.arg) /\ Rejected(f.call, f.arg)

\* an invoke of the wrapper that wrapModule put at genv[m] around a native object
DirectInvoke ==
  /\ last.op = "invoke"
  /\ last.via = "direct"
  /\ Depth(mod[last.module]) = 1

\* C3: an invoke(method) on the wrapper that wrapModule(genv, m) installed
\* for a direct-object module installs its handler at genv[m_methodCallback],
\* whatever object genv is; and when the native method calls
\* genv[m_methodCallback](v), the promise returned is settled with v.
C3_SlotOnGlobalEnv ==
  (DirectInvoke /\ last.kind = "promise") =>
    /\ slot[genv][SlotName(last.module, last.method)] = last.call
    /\ \A n \in NativeCalls :
         (n.did.do = "callback" /\ n.did.env = genv /\ CanReadProperty(n.did.arg))
           => IF HasTruthyIsError(n.did.arg)
              THEN Rejected(last.call, n.did.arg)
              ELSE Fulfilled(last.call, n.did.arg)

\* C3, when genv is the window
C3_SlotOnWindow == genv = "window" => C3_SlotOnGlobalEnv

C3_SlotOnWindowWitness ==
  /\ genv = "window" /\ DirectInvoke /\ last.kind = "promise"
  /\ \E n \in NativeCalls : n.did.do = "callback" /\ n.did.arg = Num(42)

\* C4: when native code is entered from invoke, the slot of the promise
\* being made already holds the handler of that promise; and when native
\* code calls that slot before it returns, the promise is settled when invoke
\* returns.
C4_HandlerBeforeTrigger ==
  \A n \in NativeCalls :
    /\ last.kind = "promise"
    /\ n.ownSlot = n.call
    /\ ( /\ n.did.do = "callback"
         /\ n.did.env = promise[n.call].env
         /\ n.slotName = promise[n.call].name )
       => Settled(n.call)

C4_Witness ==
  \E n \in NativeCalls :
    /\ n.did.do = "callback"
    /\ n.did.env = promise[n.call].env
    /\ n.slotName = promise[n.call].name
    /\ n.ownSlot = n.call
    /\ \E f \in Firings : f.call = n.call /\ f.wasPending
    /\ Settled(n.call)

\* C7: on a direct-object wrapper, invoke of a method name that is not one
\* of the callable keys found when the module was wrapped throws, and native
\* code is not called.
C7_UnknownMethodThrows ==
  (last.op = "invoke" /\ last.via = "direct" /\ last.method \notin mod[last.module].keys)
    => (last.kind = "throw" /\ last.native = <<>>)

\* C7, for the names that Object.prototype does not define either
C7_UndefinedMethodThrows ==
  ( /\ last.op = "invoke" /\ last.via = "direct"
    /\ last.method \notin mod[last.module].keys
    /\ ~IsFunction("ObjectPrototype", last.method) )
    => (last.kind = "throw" /\ last.val = TypeError /\ last.native = <<>>)

C7_UndefinedMethodWitness ==
  /\ last.op = "invoke" /\ last.via = "direct"
  /\ last.method \notin mod[last.module].keys
  /\ ~IsFunction("ObjectPrototype", last.method)

\* two promises made for different methods of one module, or for one method
\* of different modules
Unrelated(c, d) ==
  /\ promise[c].state # "none" /\ promise[d].state # "none"
  /\ \/ promise[c].module = promise[d].module /\ promise[c].func # promise[d].func
     \/ promise[c].module # promise[d].module /\ promise[c].func = promise[d].func

\* a pending promise whose handler is in no slot: nothing can settle it
Stranded(c) ==
  /\ promise[c].state = "pending"
  /\ \A e \in Envs, s \in SlotNames : slot[e][s] # c

\* C5: when a slot is fired while an earlier call to the same slot is still
\* pending, the handler that runs is the one of the most recent call, that
\* call's promise is settled and the earlier one stays pending.
C5_LatestSettles ==
  \A f \in Firings :
    (f.wasPending /\ f.others # {}) =>
      /\ \A a \in f.others : a < f.call /\ promise[a].state = "pending"
      /\ Settled(f.call)

\* C5, for the payloads whose isError can be read, and with the earlier
\* promise pending for ever
C5_ReadableLatestSettlesNow ==
  \A f \in Firings :
    (f.wasPending /\ f.others # {} /\ CanReadProperty(f.arg)) =>
      /\ \A a \in f.others : a < f.call /\ Stranded(a)
      /\ Settled(f.call)

C5_StrandedStays == \A c \in DOMAIN promise : Stranded(c) => Stranded(c)'

C5_ReadableLatestSettles ==
  []C5_ReadableLatestSettlesNow /\ [][C5_StrandedStays]_vars

C5_ReadableWitness ==
  \E f \in Firings :
    f.wasPending /\ f.others # {} /\ CanReadProperty(f.arg) /\ Settled(f.call)

\* C6: calls to different methods of one module, or to one method of
\* different modules, use different slots; a pending promise is settled only
\* by a call of the slot named after its own module and method, with the
\* payload of that call; and no such call takes the slot of the other.
C6_DistinctSlots ==
  \A c, d \in DOMAIN promise : Unrelated(c, d) => promise[c].name # promise[d].name

C6_SettledByOwnSlot ==
  \A c \in DOMAIN promise :
    (promise[c].state = "pending" /\ promise'[c].state # "pending") =>
      \E f \in Firings' :
        /\ f.call = c
        /\ f.env = promise[c].env
        /\ f.name = SlotName(promise[c].module, promise[c].func)
        /\ promise'[c].value = f.arg

C6_SlotKept ==
  \A e \in Envs, s \in SlotNames : \A c, d \in DOMAIN promise :
    (slot[e][s] = c /\ slot'[e][s] = d /\ c # d) => ~Unrelated(c, d)'

C6_NoInterference ==
  []C6_DistinctSlots /\ [][C6_SettledByOwnSlot /\ C6_SlotKept]_vars

\* two unrelated calls are pending together and the first is completed
C6_Witness ==
  /\ last.op = "callback"
  /\ \E f \in Firings : f.call = 1 /\ f.wasPending /\ Fulfilled(1, f.arg)
  /\ Unrelated(1, 2)
  /\ promise[2].state = "pending"
  /\ slot[promise[2].env][promise[2].name] = 2

\* the last handler run was wrapModule with both shapes present
BothPresent ==
  /\ last.op = "wrapModule"
  /\ Truthy(last.pre.mod)
  /\ last.pre.webkit = "handlers" /\ Truthy(last.pre.handler)

\* C8: wrapModule with both genv[m] and genv.webkit.messageHandlers[m]
\* present replaces genv[m] by the direct-object wrapper of what was there
\* and leaves genv.webkit.messageHandlers[m] as it was.
C8_DirectPathOnly ==
  BothPresent =>
    /\ IsWrapper(mod[last.module])
    /\ mod[last.module].kind = "android"
    /\ mod[last.module].module = last.pre.mod
    /\ handlers[last.module] = last.pre.handler

\* C8, for the direct objects that have a prototype
C8_DirectPathOnlyWithPrototype ==
  (BothPresent /\ ~getModuleKeysThrows(ShapeOf(last.pre.mod))) => C8_DirectPathOnly

C8_WithPrototypeWitness ==
  BothPresent /\ ~getModuleKeysThrows(ShapeOf(last.pre.mod))

\* neither shape is present for module name m
Neither(m) ==
  /\ ~Truthy(mod[m])
  /\ \/ webkit = "absent"
     \/ webkit = "noHandlers"
     \/ ~Truthy(handlers[m])

\* C9: wrapModule for a name with neither shape present returns without an
\* error and changes nothing of genv: no module, no handler, no slot.
C9_NoOpStep ==
  (last'.op = "wrapModule" /\ Neither(last'.module)) =>
    /\ last'.kind = "return"
    /\ UNCHANGED <<genv, mod, webkit, handlers, slot, promise, nextId>>

C9_NoOp == [][C9_NoOpStep]_vars

\* wrapModule ran with messageHandlers present and no handler for the name
C9_Witness ==
  /\ last.op = "wrapModule"
  /\ ~Truthy(last.pre.mod)
  /\ last.pre.webkit = "handlers" /\ ~Truthy(last.pre.handler)
  /\ last.kind = "return"
  /\ mod[last.module] = last.pre.mod

\* wrapModule found a native module of one of the two shapes
Detected ==
  /\ last.op = "wrapModule"
  /\ \/ Truthy(last.pre.mod)
     \/ last.pre.webkit = "handlers" /\ Truthy(last.pre.handler)

\* C10: after wrapModule has found a native module of either shape,
\* genv[m] is a wrapper (an object with invoke).
C10_ApiAtGlobalEnv == Detected => IsWrapper(mod[last.module])

\* C10, with the wrapper where the native module was
C10_ApiWhereModuleWas ==
  (Detected /\ last.kind = "return") =>
    IF Truthy(last.pre.mod)
    THEN IsWrapper(mod[last.module]) /\ mod[last.module].module = last.pre.mod
    ELSE IsWrapper(handlers[last.module]) /\ handlers[last.module].module = last.pre.handler

\* the last handler run was an invoke that returned promise c and ran no
\* handler of c
ReturnedUncalled(c) ==
  /\ last.op = "invoke" /\ last.kind = "promise" /\ last.call = c
  /\ \A f \in Firings : f.call # c

\* a promise leaves the pending state only in a step that runs its handler
SettledOnlyByHandler ==
  \A c \in DOMAIN promise :
    (promise[c].state = "pending" /\ promise'[c].state # "pending") =>
      \E f \in Firings' : f.call = c

\* C11: the promise of an invoke during which native code did not call the
\* slot is pending when invoke returns.
C11_UncalledIsPending ==
  \A c \in DOMAIN promise : ReturnedUncalled(c) => promise[c].state = "pending"

\* C11 as amended: such a promise is pending, or rejected with the exception
\* the native call threw during invoke; and a pending promise is settled only
\* by a run of its handler.
C11_UncalledIsPendingOrThrown ==
  \A c \in DOMAIN promise :
    ReturnedUncalled(c) =>
      \/ promise[c].state = "pending"
      \/ promise[c].state = "rejected" /\ promise[c].value \in {TypeError, NativeException}
           /\ \E n \in NativeCalls : n.did.do # "nothing"

C11_StuckUnlessCalled ==
  []C11_UncalledIsPendingOrThrown /\ [][SettledOnlyByHandler]_vars

\* native code returned without calling the slot and the promise is pending
C11_Witness ==
  \E c \in DOMAIN promise :
    /\ ReturnedUncalled(c)
    /\ \E n \in NativeCalls : n.call = c /\ n.did.do = "nothing"
    /\ promise[c].state = "pending"

\* C12: every run of a slot handler with a payload that has no truthy
\* isError, null and undefined included, resolves the promise with that
\* payload if it is pending, and a call of the slot by native code returns
\* without an exception.
C12_AnyShapeIsSuccess ==
  /\ \A f \in Firings :
       (f.wasPending /\ ~HasTruthyIsError(f.arg)) => Fulfilled(f.call, f.arg)
  /\ (last.op = "callback" /\ ~HasTruthyIsError(last.arg)) => last.kind = "return"

\* C12, for the payloads other than null and undefined
C12_ReadableIsSuccess ==
  /\ \A f \in Firings :
       (f.wasPending /\ CanReadProperty(f.arg) /\ ~HasTruthyIsError(f.arg)) =>
         Fulfilled(f.call, f.arg)
  /\ (last.op = "callback" /\ CanReadProperty(last.arg)) => last.kind = "return"

C12_ReadableWitness ==
  /\ last.op = "callback" /\ last.arg = Obj(Undefined, "done")
  /\ \E f \in Firings : f.wasPending /\ Fulfilled(f.call, f.arg)

\* wrapModule has just wrapped a direct object
WrappedDirect ==
  /\ last.op = "wrapModule" /\ last.branch = "android" /\ last.kind = "return"
  /\ ~IsWrapper(last.pre.mod)

\* C13: the key of every callable member of a module, own or inherited at
\* any depth, enumerable or not, is among the keys getModuleKeys returns and
\* among the methods the wrapper can invoke.
C13_EveryCallableDiscovered ==
  WrappedDirect =>
    \A key \in Keys :
      IsFunction(ShapeOf(last.pre.mod), key) =>
        /\ key \in Range(getModuleKeys(ShapeOf(last.pre.mod)))
        /\ key \in mod[last.module].keys

\* C13, for the own enumerable members and the own members of the prototype
C13_OwnAndPrototypeDiscovered ==
  WrappedDirect =>
    LET o == ShapeOf(last.pre.mod) IN
    \A key \in Keys :
      (Heap[o].own[key] = Fn \/ Heap[Heap[o].proto].own[key] \in {Fn, HiddenFn}) =>
        (IsFunction(o, key) => key \in mod[last.module].keys)

C13_DeepWitness ==
  WrappedDirect /\ ShapeOf(last.pre.mod) = "derived" /\ "x_bar" \in mod[last.module].keys

\* the last handler run was an invoke on a wrapper of a native message channel
ChannelInvoke ==
  /\ last.op = "invoke" /\ last.via = "channel"
  /\ ~IsWrapper(handlers[last.module].module)

\* the parameter names of an argument list
NamesOf(args) == { ParamNameOf(args[i]) : i \in 1..Len(args) }

\* the value of the last parameter of args that carries name
LastValueOf(args, name) ==
  LET is == { i \in 1..Len(args) : ParamNameOf(args[i]) = name }
      i  == CHOOSE k \in is : \A j \in is : j <= k
  IN  ParamValueOf(args[i])

\* C14: invoke(method, p1..pn) on a message-channel wrapper calls postMessage
\* of the native channel exactly once, with one object whose fields are
\* method and the parameter names, each parameter-named field holding the
\* value of the last parameter of that name, and it uses the slot
\* <moduleName>_<method>Callback.
C14_OnePostMessage ==
  ChannelInvoke =>
    /\ last.kind = "promise"
    /\ Len(last.native) = 1
    /\ LET n == last.native[1] IN
       /\ n.obj = "channel" /\ n.key = "postMessage"
       /\ Len(n.args) = 1
       /\ DOMAIN n.args[1] = {"method"} \cup NamesOf(last.args)
       /\ \A name \in NamesOf(last.args) : n.args[1][name] = LastValueOf(last.args, name)
       /\ "method" \notin NamesOf(last.args) => n.args[1]["method"] = Str(last.method)
       /\ n.ownSlot = last.call
    /\ promise[last.call].name = SlotName(last.module, last.method)
    /\ promise[last.call].env = genv

\* two parameters of one name were passed
C14_Witness ==
  /\ ChannelInvoke
  /\ Len(last.args) = 2
  /\ ParamNameOf(last.args[1]) = "x" /\ ParamNameOf(last.args[2]) = "x"
  /\ ParamValueOf(last.args[1]) # ParamValueOf(last.args[2])
  /\ last.native[1].args[1]["x"] = ParamValueOf(last.args[2])

\* the last handler run was an invoke of a discovered method on a wrapper of
\* a native direct object
DiscoveredInvoke ==
  /\ last.op = "invoke" /\ last.via = "direct"
  /\ ~IsWrapper(mod[last.module].module)
  /\ last.method \in mod[last.module].keys

\* C15: invoke(method, p1..pn) of a discovered method on a direct-object
\* wrapper calls that method of the module exactly once, on the module, with
\* the values of p1..pn in their order, and it uses the slot
\* <moduleName>_<method>Callback.
C15_OneNativeCall ==
  DiscoveredInvoke =>
    /\ last.kind = "promise"
    /\ Len(last.native) = 1
    /\ LET n == last.native[1] IN
       /\ n.obj = ShapeOf(mod[last.module].module) /\ n.key = last.method
       /\ Len(n.args) = Len(last.args)
       /\ \A i \in 1..Len(last.args) : n.args[i] = last.args[i].paramValue
       /\ n.ownSlot = last.call
    /\ promise[last.call].name = SlotName(last.module, last.method)

\* two parameters with different values were passed
C15_Witness ==
  /\ DiscoveredInvoke
  /\ Len(last.args) = 2
  /\ last.args[1].paramValue # last.args[2].paramValue
  /\ last.native[1].args = <<last.args[1].paramValue, last.args[2].paramValue>>

\* the last handler run was an invoke on a direct-object wrapper that
\* wrapModule made from a direct-object wrapper
RewrappedInvoke ==
  /\ last.op = "invoke" /\ last.via = "direct"
  /\ Depth(mod[last.module]) = 2

\* the native module inside the wrappers of module name m
RECURSIVE Innermost(_)
Innermost(v) == IF IsWrapper(v) THEN Innermost(v.module) ELSE v

\* C16: on a module wrapped twice, invoke throws for every method name but
\* "invoke", and no invoke reaches a method of the native module.
C16_OnlyInvokeSupported ==
  RewrappedInvoke =>
    /\ last.method # "invoke" => last.kind = "throw"
    /\ last.native = <<>>

\* C16 as amended: invoke throws for every name that is neither "invoke" nor
\* a function of Object.prototype; for a function of Object.prototype it
\* returns a promise; for no name but "invoke" is native code reached; and
\* invoke("invoke", p) with p.paramValue a discovered method of the native
\* module calls that method.
C16_RewrappedInvoke ==
  RewrappedInvoke =>
    LET builtin == IsFunction("ObjectPrototype", last.method)
        native  == ShapeOf(Innermost(mod[last.module]))
    IN
    /\ (last.method # "invoke" /\ ~builtin) => last.kind = "throw"
    /\ builtin => last.kind = "promise"
    /\ last.method # "invoke" => last.native = <<>>
    /\ (/\ last.method = "invoke"
        /\ last.args # <<>>
        /\ last.args[1].paramValue.t = "string"
        /\ IsFunction(native, last.args[1].paramValue.s)
        /\ DefinedOn(native, last.args[1].paramValue.s) \in {native, Heap[native].proto}
        /\ DefinedOn(native, last.args[1].paramValue.s) # "ObjectPrototype")
       => /\ last.kind = "promise"
          /\ Len(last.native) = 1
          /\ last.native[1].obj = native
          /\ last.native[1].key = last.args[1].paramValue.s

\* invoke("invoke", p) with p.paramValue = "bar" called bar of the native module
C16_Witness ==
  /\ RewrappedInvoke
  /\ last.method = "invoke"
  /\ Len(last.native) = 1
  /\ last.native[1].key = "bar"
  /\ last.native[1].obj = ShapeOf(Innermost(mod[last.module]))

\* wrapModule was run on a native direct object that has no prototype
NoPrototypeInstall ==
  /\ last.op = "wrapModule" /\ last.branch = "android"
  /\ ~IsWrapper(last.pre.mod)
  /\ Heap[ShapeOf(last.pre.mod)].proto = NoProto

\* C17: wrapping a direct object without a prototype raises nothing and
\* yields a wrapper for exactly the module's own enumerable callable keys.
C17_NoPrototypeWraps ==
  NoPrototypeInstall =>
    /\ last.kind = "return"
    /\ IsWrapper(mod[last.module])
    /\ mod[last.module].keys =
         { k \in Range(ObjectKeys(ShapeOf(last.pre.mod))) :
             IsFunction(ShapeOf(last.pre.mod), k) }

\* what the code does there: a TypeError, and the module is left as it was
C17_NoPrototypeThrows ==
  NoPrototypeInstall =>
    /\ last.kind = "throw" /\ last.val = TypeError
    /\ mod[last.module] = last.pre.mod

C17_NoPrototypeWitness == NoPrototypeInstall /\ last.kind = "throw"

\* C18: two calls whose (moduleName, methodName) pairs differ have different
\* slot names, so they never share a callback slot.
C18_SlotNameInjective ==
  \A c, d \in DOMAIN promise :
    (/\ promise[c].state # "none" /\ promise[d].state # "none"
     /\ <<promise[c].module, promise[c].func>> # <<promise[d].module, promise[d].func>>)
    => promise[c].name # promise[d].name

\* what the code does: the handler of a call to one pair is replaced by the
\* handler of a call to another pair
C18_SharedSlotWitness ==
  \E c, d \in DOMAIN promise :
    /\ c < d
    /\ promise[c].state = "pending" /\ promise[d].state # "none"
    /\ <<promise[c].module, promise[c].func>> # <<promise[d].module, promise[d].func>>
    /\ promise[c].env = promise[d].env
    /\ slot[promise[c].env][SlotName(promise[c].module, promise[c].func)] = d

\* C19: the method field of the object given to postMessage is the method
\* argument of invoke, whatever the parameters are named.
C19_MethodFieldIsMethod ==
  (ChannelInvoke /\ last.native # <<>>) =>
    last.native[1].args[1]["method"] = Str(last.method)

\* C19, when no parameter is named method
C19_MethodFieldUnlessNamed ==
  (ChannelInvoke /\ last.native # <<>> /\ "method" \notin NamesOf(last.args)) =>
    last.native[1].args[1]["method"] = Str(last.method)

C19_UnlessNamedWitness ==
  /\ ChannelInvoke /\ Len(last.native) = 1 /\ Len(last.args) = 2
  /\ "method" \notin NamesOf(last.args)
  /\ last.native[1].args[1]["method"] = Str(last.method)

\* the last handler run was an invoke whose native call threw
NativeThrew ==
  /\ last.op = "invoke"
  /\ \E n \in NativeCalls : n.did.do \in {"throw", "callbackThenThrow"}

\* a settled promise keeps its state and value
SettledStays ==
  \A c \in DOMAIN promise : Settled(c) => promise'[c] = promise[c]

\* a slot changes only when an invoke installs the handler of a new promise
SlotKeptUntilInvoke ==
  \A e \in Envs, s \in SlotNames :
    slot'[e][s] # slot[e][s] => (last'.op = "invoke" /\ slot'[e][s] >= nextId)

\* C20: when the native call throws during invoke, invoke returns a promise
\* rejected with the exception and the handler of the call is in its slot.
C20_ThrowRejects ==
  NativeThrew =>
    /\ last.kind = "promise"
    /\ promise[last.call].state = "rejected"
    /\ promise[last.call].value \in {NativeException, TypeError}
    /\ slot[promise[last.call].env][promise[last.call].name] = last.call

\* C20 as amended: the promise is rejected with the exception unless the
\* native call had settled it through the slot before it threw
C20_ThrowRejectsUnlessSettled ==
  NativeThrew =>
    /\ last.kind = "promise"
    /\ slot[promise[last.call].env][promise[last.call].name] = last.call
    /\ IF \E f \in Firings : f.call = last.call /\ f.wasPending /\ CanReadProperty(f.arg)
       THEN \E f \in Firings :
              /\ f.call = last.call /\ f.wasPending
              /\ Settled(last.call) /\ promise[last.call].value = f.arg
       ELSE /\ promise[last.call].state = "rejected"
            /\ promise[last.call].value \in {NativeException, TypeError}
            /\ (\A n \in NativeCalls : n.did.do = "throw") =>
                 promise[last.call].value = NativeException

C20_ThrowThenNoEffect ==
  []C20_ThrowRejectsUnlessSettled /\ [][SettledStays /\ SlotKeptUntilInvoke]_vars

\* the slot of a promise rejected by a throw was called later
C20_Witness ==
  /\ last.op = "callback"
  /\ \E f \in Firings :
       /\ ~f.wasPending
       /\ Rejected(f.call, NativeException)
       /\ slot[f.env][f.name] = f.call

====
